---- MODULE Spec2Model ----
(***************************************************************************)
(* Model of auto_remove.py: a watchdog observer dispatches file-creation   *)
(* events to WatermarkHandler.on_created, which filters, debounces and     *)
(* runs the pipeline resize -> create_mask -> inpaint -> save, while the   *)
(* main thread sleeps until KeyboardInterrupt.                             *)
(*                                                                         *)
(* Paths and file names are sequences of one-character strings.  Images    *)
(* are records of their dimensions and colour layout; the mask is modelled *)
(* pixel by pixel inside the bounding box of everything ever written to    *)
(* it (every pixel outside the box is 0).                                  *)
(***************************************************************************)
EXTENDS Integers, Sequences, FiniteSets, TLC

\* ------------------------------------------------------------ constants
\* auto_remove.py:23-27
TARGET_WIDTH == 1280
TARGET_HEIGHT == 720
MASK_SIZE == 45
PADDING_RIGHT == 30
PADDING_BOTTOM == 30
\* cv2.threshold(mask_cv, 127, 255, cv2.THRESH_BINARY), auto_remove.py:70
THRESH == 127
MAXVAL == 255
\* np.ones((3, 3)) and iterations=2, auto_remove.py:75-76
KERNEL_SIZE == 3
DILATE_ITERATIONS == 2
\* time.sleep(1) in on_created, auto_remove.py:117
DEBOUNCE_SECONDS == 1
\* sys.exit(1), auto_remove.py:134
EXIT_MASK_MISSING == 1
\* the script running off its end after observer.join(), auto_remove.py:152
EXIT_OK == 0

\* ------------------------------------------------------------ bounds
\* number of creation events the emitter reports in one run
MaxEvents == 2

\* ------------------------------------------------------------ configuration
\* config["INPUT_DIR"], config["OUTPUT_DIR"] (auto_remove.py:18-19); the
\* values are those of a sample config.json
INPUT_DIR == <<"i", "n">>
OUTPUT_DIR == <<"o", "u", "t">>

\* ------------------------------------------------------------ strings
\* str.lower() on the characters that occur in the modelled file names
lower_char(c) ==
    CASE c = "A" -> "a" [] c = "B" -> "b" [] c = "E" -> "e" [] c = "F" -> "f"
      [] c = "G" -> "g" [] c = "I" -> "i" [] c = "J" -> "j" [] c = "M" -> "m"
      [] c = "N" -> "n" [] c = "P" -> "p" [] c = "T" -> "t" [] c = "X" -> "x"
      [] OTHER -> c

lower(s) == [k \in 1..Len(s) |-> lower_char(s[k])]

\* str.endswith(suffix)
endswith(s, suffix) ==
    /\ Len(suffix) <= Len(s)
    /\ SubSeq(s, Len(s) - Len(suffix) + 1, Len(s)) = suffix

\* positions of "/" in a path
SlashPositions(p) == {k \in 1..Len(p) : p[k] = "/"}

Max(S) == CHOOSE m \in S : \A n \in S : n <= m

\* os.path.basename (posix): everything after the last "/"
basename(p) ==
    IF SlashPositions(p) = {} THEN p
    ELSE SubSeq(p, Max(SlashPositions(p)) + 1, Len(p))

\* os.path.join(a, b) (posix)
path_join(a, b) ==
    IF Len(b) > 0 /\ b[1] = "/" THEN b
    ELSE IF Len(a) = 0 \/ a[Len(a)] = "/" THEN a \o b
    ELSE a \o <<"/">> \o b

\* os.path.dirname (posix), used to state where a file was written
dirname(p) ==
    IF SlashPositions(p) = {} THEN <<>>
    ELSE SubSeq(p, 1, Max(SlashPositions(p)) - 1)

\* the tuple given to endswith in on_created (auto_remove.py:113)
VALID_SUFFIXES ==
    { <<".", "p", "n", "g">>, <<".", "j", "p", "g">>,
      <<".", "j", "p", "e", "g">>, <<".", "b", "m", "p">>,
      <<".", "t", "i", "f", "f">> }

\* the same test without .lower()
has_valid_extension_nocase(filename) ==
    \E suf \in VALID_SUFFIXES : endswith(filename, suf)

\* filename.lower().endswith(('.png', '.jpg', '.jpeg', '.bmp', '.tiff'))
has_valid_extension(filename) ==
    \E suf \in VALID_SUFFIXES : endswith(lower(filename), suf)

\* ------------------------------------------------------------ images
\* a decoded raster: its size, channel count and channel order
NoImage == [width |-> 0, height |-> 0, channels |-> 0, order |-> "none"]

\* channels of a PIL mode
mode_channels(mode) ==
    CASE mode = "RGB" -> 3 [] mode = "RGBA" -> 4 [] OTHER -> 1

\* a resize that fits the width and keeps the aspect ratio
resize_image_keep_aspect(content) ==
    IF ~content.ok THEN NoImage
    ELSE [width |-> TARGET_WIDTH,
          height |-> (content.height * TARGET_WIDTH) \div content.width,
          channels |-> 3, order |-> "BGR"]

\* Image.open(input_path) -> img.resize((TARGET_WIDTH, TARGET_HEIGHT)) ->
\* convert('RGB') when needed -> cv2.cvtColor(..., COLOR_RGB2BGR);
\* None (NoImage) when the file cannot be decoded
resize_image(content) ==
    IF ~content.ok THEN NoImage
    ELSE LET resized_img == [width |-> TARGET_WIDTH, height |-> TARGET_HEIGHT,
                             mode |-> content.mode]
             rgb == IF resized_img.mode # "RGB"
                    THEN [resized_img EXCEPT !.mode = "RGB"]
                    ELSE resized_img
         IN [width |-> rgb.width, height |-> rgb.height,
             channels |-> mode_channels(rgb.mode), order |-> "BGR"]

\* ------------------------------------------------------------ mask rasters
\* A single-channel raster of width x height pixels.  Pixels are stored for
\* the box x0..x1, y0..y1 only (data[x][y]); every pixel outside it is 0.
Pixel(m, x, y) ==
    IF x >= m.x0 /\ x <= m.x1 /\ y >= m.y0 /\ y <= m.y1 THEN m.data[x][y] ELSE 0

NonZero(m) ==
    {p \in (m.x0 .. m.x1) \X (m.y0 .. m.y1) : m.data[p[1]][p[2]] # 0}

PixelValues(m) ==
    {m.data[p[1]][p[2]] : p \in (m.x0 .. m.x1) \X (m.y0 .. m.y1)}
        \cup (IF (m.x1 - m.x0 + 1) * (m.y1 - m.y0 + 1) < m.width * m.height
              THEN {0} ELSE {})

Shape(m) == [width |-> m.width, height |-> m.height]

MinOf(a, b) == IF a < b THEN a ELSE b
MaxOf(a, b) == IF a > b THEN a ELSE b

\* mask_img.resize((MASK_SIZE, MASK_SIZE), LANCZOS) followed by convert('L'):
\* the resampled grey levels are whatever the asset holds, here a block of
\* level fg at (bx, by) of size bw x bh on a ground of level bg
mask_resized(asset) ==
    [width |-> MASK_SIZE, height |-> MASK_SIZE,
     x0 |-> 0, y0 |-> 0, x1 |-> MASK_SIZE - 1, y1 |-> MASK_SIZE - 1,
     data |-> [x \in 0 .. MASK_SIZE - 1 |-> [y \in 0 .. MASK_SIZE - 1 |->
                 IF /\ x >= asset.bx /\ x < asset.bx + asset.bw
                    /\ y >= asset.by /\ y < asset.by + asset.bh
                 THEN asset.fg ELSE asset.bg]]]

\* Image.new('L', (w, h), 0)
new_canvas(w, h) ==
    [width |-> w, height |-> h, x0 |-> 0, y0 |-> 0, x1 |-> -1, y1 |-> -1,
     data |-> [x \in {} |-> [y \in {} |-> 0]]]

\* canvas.paste(src, (ox, oy)): src is copied, clipped to the canvas
paste(canvas, src, ox, oy) ==
    LET px0 == MaxOf(ox, 0)
        py0 == MaxOf(oy, 0)
        px1 == MinOf(ox + src.width, canvas.width) - 1
        py1 == MinOf(oy + src.height, canvas.height) - 1
        empty == canvas.x1 < canvas.x0 \/ canvas.y1 < canvas.y0
        nx0 == IF empty THEN px0 ELSE MinOf(px0, canvas.x0)
        ny0 == IF empty THEN py0 ELSE MinOf(py0, canvas.y0)
        nx1 == IF empty THEN px1 ELSE MaxOf(px1, canvas.x1)
        ny1 == IF empty THEN py1 ELSE MaxOf(py1, canvas.y1)
    IN [canvas EXCEPT
          !.x0 = nx0, !.y0 = ny0, !.x1 = nx1, !.y1 = ny1,
          !.data = [x \in nx0 .. nx1 |-> [y \in ny0 .. ny1 |->
                      IF x >= px0 /\ x <= px1 /\ y >= py0 /\ y <= py1
                      THEN Pixel(src, x - ox, y - oy)
                      ELSE Pixel(canvas, x, y)]]]

\* THRESH_TOZERO in place of THRESH_BINARY: v > thresh ? v : 0
threshold_tozero(m, thresh, maxval) ==
    [m EXCEPT !.data = [x \in m.x0 .. m.x1 |-> [y \in m.y0 .. m.y1 |->
        IF m.data[x][y] > thresh THEN m.data[x][y] ELSE 0]]]

\* cv2.threshold(src, thresh, maxval, THRESH_BINARY): v > thresh ? maxval : 0
threshold(m, thresh, maxval) ==
    [m EXCEPT !.data = [x \in m.x0 .. m.x1 |-> [y \in m.y0 .. m.y1 |->
        IF m.data[x][y] > thresh THEN maxval ELSE 0]]]

\* offset_x, offset_y of create_mask (auto_remove.py:63-64)
offset_x == TARGET_WIDTH - MASK_SIZE - PADDING_RIGHT
offset_y == TARGET_HEIGHT - MASK_SIZE - PADDING_BOTTOM

\* create_mask: the resized asset pasted on a zero canvas, then thresholded
mask_canvas(asset) ==
    paste(new_canvas(TARGET_WIDTH, TARGET_HEIGHT), mask_resized(asset),
          offset_x, offset_y)

create_mask(asset) == threshold(mask_canvas(asset), THRESH, MAXVAL)

\* one pass of cv2.dilate with a ksize x ksize kernel of ones anchored at its
\* centre: each pixel becomes the maximum over its neighbourhood (pixels
\* beyond the border do not count)
dilate_once(m, ksize) ==
    LET r == (ksize - 1) \div 2
        empty == m.x1 < m.x0 \/ m.y1 < m.y0
        nx0 == IF empty THEN 0 ELSE MaxOf(m.x0 - r, 0)
        ny0 == IF empty THEN 0 ELSE MaxOf(m.y0 - r, 0)
        nx1 == IF empty THEN -1 ELSE MinOf(m.x1 + r, m.width - 1)
        ny1 == IF empty THEN -1 ELSE MinOf(m.y1 + r, m.height - 1)
    IN [m EXCEPT
          !.x0 = nx0, !.y0 = ny0, !.x1 = nx1, !.y1 = ny1,
          !.data = [x \in nx0 .. nx1 |-> [y \in ny0 .. ny1 |->
                      Max({Pixel(m, x + d[1], y + d[2]) :
                               d \in (-r .. r) \X (-r .. r)})]]]

RECURSIVE dilate(_, _, _)
dilate(m, ksize, iterations) ==
    IF iterations = 0 THEN m
    ELSE dilate(dilate_once(m, ksize), ksize, iterations - 1)

\* the mask handed to cv2.inpaint by inpaint_image (auto_remove.py:75-76)
mask_dilated(mask_binary) == dilate(mask_binary, KERNEL_SIZE, DILATE_ITERATIONS)

\* inpaint_image: cv2.inpaint returns an image of img_cv's size and layout;
\* it rejects (cv2.error) a mask whose size differs from the image's
inpaint_accepts(img_cv, mask_shape) ==
    mask_shape.width = img_cv.width /\ mask_shape.height = img_cv.height

inpaint_image(img_cv, mask_shape) == img_cv

\* ------------------------------------------------------------ inputs
\* a file-creation event: its src_path, event.is_directory and what the
\* created file holds (ok = decodable by Image.open, with its size and mode)
Ev(name, isdir, ok, w, h, mode) ==
    [src_path |-> path_join(INPUT_DIR, name), is_directory |-> isdir,
     content |-> [ok |-> ok, width |-> w, height |-> h, mode |-> mode]]

Events ==
    { Ev(<<"a", ".", "p", "n", "g">>, FALSE, TRUE, 640, 480, "RGB"),
      Ev(<<"B", ".", "J", "p", "E", "g">>, FALSE, TRUE, 1280, 720, "RGBA"),
      Ev(<<"x", ".", "b", "m", "p">>, FALSE, FALSE, 0, 0, "none"),
      Ev(<<".", "T", "I", "F", "F">>, FALSE, TRUE, 1, 1, "L"),
      Ev(<<"n", ".", "t", "x", "t">>, FALSE, TRUE, 720, 1280, "P"),
      Ev(<<"m", ".", "t", "i", "f">>, FALSE, TRUE, 640, 480, "RGB"),
      Ev(<<"j", "p", "g">>, FALSE, TRUE, 640, 480, "RGB"),
      Ev(<<"d", ".", "p", "n", "g">>, TRUE, FALSE, 0, 0, "none") }

\* the grey levels of the mask asset next to the script: a bright logo
\* block on a dark ground
DefaultAsset == [bx |-> 5, by |-> 5, bw |-> 35, bh |-> 35, fg |-> 255, bg |-> 0]

\* exit statuses of a Python process ended by an uncaught KeyboardInterrupt
\* (1 from the default excepthook, 130 = 128 + SIGINT)
UNCAUGHT_INTERRUPT_STATUS == {1, 130}

\* ------------------------------------------------------------ state
VARIABLES
    pc_main,        \* where the main thread is
    exit_code,      \* <<>> while the process runs, <<status>> once it ended
    startup_mask,   \* the asset on disk when the startup check ran:
                    \* "unchecked", "present", "missing"
    interrupted,    \* a KeyboardInterrupt has been raised in the main thread
    scheduled,      \* observer.schedule(...) has been called
    obs,            \* observer thread: "new", "running", "stopped", "crashed"
    mask_file,      \* the mask asset on disk: "ok" or "missing"
    calls,          \* one frame per event reported, in arrival order
    outputs,        \* files written, as records [path, image, event]
    mk_pc,          \* mask construction traced step by step
    mk_asset,
    mk_img,
    mk_binary,
    mk_iter

vars == <<pc_main, exit_code, startup_mask, interrupted, scheduled, obs,
          mask_file, calls, outputs, mk_pc, mk_asset, mk_img, mk_binary, mk_iter>>

main_vars == <<pc_main, exit_code, startup_mask, interrupted, scheduled>>
mk_vars == <<mk_pc, mk_asset, mk_img, mk_binary, mk_iter>>

ProcessingPcs == {"CheckMask", "Resize", "CreateMask", "Inpaint", "Save"}

NewFrame(e) ==
    [event |-> e, pc |-> "Queued", elapsed |-> 0, filename |-> <<>>,
     output_path |-> <<>>, img_cv |-> NoImage,
     mask_binary |-> [width |-> 0, height |-> 0], result_cv |-> NoImage,
     invocations |-> 0, outcome |-> "none"]

Alive == pc_main # "exited"

\* on_created handing the debounce and the pipeline to another thread and
\* returning at once
on_created_returned_early(f) == f.pc \notin {"Queued", "EventReceived"}

\* on_created has returned to the dispatching thread (auto_remove.py:108,
\* 114, or after the try statement)
on_created_returned(f) == f.pc \in {"Filtered", "Done"}

Active(f) == f.pc # "Queued" /\ ~on_created_returned(f)

\* the observer thread has left its run loop
ObserverFinished ==
    \/ obs = "crashed"
    \/ obs = "stopped" /\ \A i \in 1 .. Len(calls) : ~Active(calls[i])

MainInit ==
    /\ pc_main = "check_mask"
    /\ exit_code = <<>>
    /\ startup_mask = "unchecked"
    /\ interrupted = FALSE
    /\ scheduled = FALSE
    /\ obs = "new"
    /\ mask_file \in {"ok", "missing"}
    /\ calls = <<>>
    /\ outputs = {}

MkIdle ==
    /\ mk_pc = "idle"
    /\ mk_asset = DefaultAsset
    /\ mk_img = new_canvas(0, 0)
    /\ mk_binary = new_canvas(0, 0)
    /\ mk_iter = 0

Init == MainInit /\ MkIdle

\* ------------------------------------------------------------ main thread
\* os.path.exists(MASK_PATH)
mask_exists(mf) == mf # "missing"

\* no startup check at all
startup_check_skipped(mf) == TRUE

\* the startup check lets the program go on (auto_remove.py:131)
startup_check_passes(mf) == mask_exists(mf)

\* if not os.path.exists(MASK_PATH):
StartupCheck ==
    /\ pc_main = "check_mask"
    /\ startup_mask' = IF mask_file = "missing" THEN "missing" ELSE "present"
    /\ pc_main' = IF startup_check_passes(mask_file) THEN "schedule"
                  ELSE "startup_exit"
    /\ UNCHANGED <<exit_code, interrupted, scheduled, obs, mask_file, calls,
                   outputs, mk_vars>>

\* print(...); print(...); sys.exit(1)
StartupExit ==
    /\ pc_main = "startup_exit"
    /\ pc_main' = "exited"
    /\ exit_code' = <<EXIT_MASK_MISSING>>
    /\ UNCHANGED <<startup_mask, interrupted, scheduled, obs, mask_file, calls,
                   outputs, mk_vars>>

\* observer = Observer(); event_handler = WatermarkHandler();
\* observer.schedule(event_handler, INPUT_DIR, recursive=False)
Schedule ==
    /\ pc_main = "schedule"
    /\ scheduled' = TRUE
    /\ pc_main' = "start"
    /\ UNCHANGED <<exit_code, startup_mask, interrupted, obs, mask_file, calls,
                   outputs, mk_vars>>

\* observer.start()
Start ==
    /\ pc_main = "start"
    /\ obs' = "running"
    /\ pc_main' = "banner"
    /\ UNCHANGED <<exit_code, startup_mask, interrupted, scheduled, mask_file,
                   calls, outputs, mk_vars>>

\* the four print calls between observer.start() and the try statement
Banner ==
    /\ pc_main = "banner"
    /\ pc_main' = "loop"
    /\ UNCHANGED <<exit_code, startup_mask, interrupted, scheduled, obs,
                   mask_file, calls, outputs, mk_vars>>

\* while True: time.sleep(1)
MainSleep ==
    /\ pc_main = "loop"
    /\ UNCHANGED vars

\* the main thread is inside the try statement that handles KeyboardInterrupt
interrupt_handled(pcm) == pcm = "loop"

\* a KeyboardInterrupt raised in the main thread: handled by the except
\* clause inside the loop, and ending the process (with its daemon observer
\* thread) anywhere else
Interrupt ==
    /\ Alive
    /\ interrupted' = TRUE
    /\ IF interrupt_handled(pc_main)
       THEN pc_main' = "stop" /\ exit_code' = exit_code
       ELSE /\ pc_main' = "exited"
            /\ \E st \in UNCAUGHT_INTERRUPT_STATUS : exit_code' = <<st>>
    /\ UNCHANGED <<startup_mask, scheduled, obs, mask_file, calls, outputs, mk_vars>>

\* except KeyboardInterrupt: observer.stop()
Stop ==
    /\ pc_main = "stop"
    /\ obs' = IF obs = "running" THEN "stopped" ELSE obs
    /\ pc_main' = "join"
    /\ UNCHANGED <<exit_code, startup_mask, interrupted, scheduled, mask_file,
                   calls, outputs, mk_vars>>

\* observer.join(), then the script ends
Join ==
    /\ pc_main = "join"
    /\ ObserverFinished
    /\ pc_main' = "exited"
    /\ exit_code' = <<EXIT_OK>>
    /\ UNCHANGED <<startup_mask, interrupted, scheduled, obs, mask_file, calls,
                   outputs, mk_vars>>

\* ------------------------------------------------------------ environment
\* the mask asset is deleted or put back while the program runs
MaskDeleted ==
    /\ Alive /\ mask_file = "ok"
    /\ mask_file' = "missing"
    /\ UNCHANGED <<main_vars, obs, calls, outputs, mk_vars>>

MaskRestored ==
    /\ Alive /\ mask_file = "missing"
    /\ mask_file' = "ok"
    /\ UNCHANGED <<main_vars, obs, calls, outputs, mk_vars>>

\* a file or directory appears in INPUT_DIR; the running observer's emitter
\* queues a creation event for it
FileCreated ==
    /\ Alive /\ obs = "running" /\ scheduled
    /\ Len(calls) < MaxEvents
    /\ \E e \in Events : calls' = Append(calls, NewFrame(e))
    /\ UNCHANGED <<main_vars, obs, mask_file, outputs, mk_vars>>

\* ------------------------------------------------------------ observer thread
\* the observer's single dispatching thread takes the next queued event and
\* calls on_created with it, once the previous call has returned
Dispatch(i) ==
    /\ Alive /\ obs = "running"
    /\ calls[i].pc = "Queued"
    /\ \A j \in 1 .. i - 1 : on_created_returned(calls[j])
    /\ calls' = [calls EXCEPT ![i].pc = "EventReceived"]
    /\ UNCHANGED <<main_vars, obs, mask_file, outputs, mk_vars>>

\* if event.is_directory: return ... if not filename.lower().endswith(...): return
passes_filter(e) ==
    /\ ~e.is_directory
    /\ has_valid_extension(basename(e.src_path))

Filter(i) ==
    /\ Alive /\ calls[i].pc = "EventReceived"
    /\ calls' = IF passes_filter(calls[i].event)
                THEN [calls EXCEPT ![i].pc = "Debouncing",
                                   ![i].filename = basename(calls[i].event.src_path)]
                ELSE [calls EXCEPT ![i].pc = "Filtered", ![i].outcome = "filtered"]
    /\ UNCHANGED <<main_vars, obs, mask_file, outputs, mk_vars>>

\* no debounce
sleep_skipped(elapsed) == TRUE

\* time.sleep(1) has run its full second
sleep_over(elapsed) == elapsed >= DEBOUNCE_SECONDS

Sleep(i) ==
    /\ Alive /\ calls[i].pc = "Debouncing"
    /\ ~sleep_over(calls[i].elapsed)
    /\ calls' = [calls EXCEPT ![i].elapsed = @ + 1]
    /\ UNCHANGED <<main_vars, obs, mask_file, outputs, mk_vars>>

\* the output named after the lower-cased file name
output_path_lowered(filename) == path_join(OUTPUT_DIR, lower(filename))

\* output_path = os.path.join(OUTPUT_DIR, filename)
output_path_for(filename) == path_join(OUTPUT_DIR, filename)

\* process_file_logic(event.src_path, output_path) is entered
Invoke(i) ==
    /\ Alive /\ calls[i].pc = "Debouncing"
    /\ sleep_over(calls[i].elapsed)
    /\ calls' = [calls EXCEPT ![i].pc = "CheckMask",
                              ![i].output_path = output_path_for(calls[i].filename),
                              ![i].invocations = @ + 1]
    /\ UNCHANGED <<main_vars, obs, mask_file, outputs, mk_vars>>

\* a handler narrowed to ValueError
caught_only_value_errors(exc) == exc = "ValueError"

\* except Exception as e: print(...) around process_file_logic
caught(exc) == exc \in {"FileNotFoundError", "cv2.error", "OSError", "ValueError"}

\* process_file_logic raises exc in call i: on_created's handler swallows it,
\* anything it lets through ends the observer thread
Raise(i, exc) ==
    IF caught(exc)
    THEN /\ calls' = [calls EXCEPT ![i].pc = "Done", ![i].outcome = "failed"]
         /\ obs' = obs
    ELSE /\ calls' = [calls EXCEPT ![i].pc = "Done", ![i].outcome = "crashed"]
         /\ obs' = "crashed"

\* if not os.path.exists(MASK_PATH): print(...); return
CheckMask(i) ==
    /\ Alive /\ calls[i].pc = "CheckMask"
    /\ calls' = IF mask_exists(mask_file)
                THEN [calls EXCEPT ![i].pc = "Resize"]
                ELSE [calls EXCEPT ![i].pc = "Done", ![i].outcome = "mask_missing"]
    /\ UNCHANGED <<main_vars, obs, mask_file, outputs, mk_vars>>

\* img_cv = resize_image(input_path); if img_cv is None: return
Resize(i) ==
    /\ Alive /\ calls[i].pc = "Resize"
    /\ LET img_cv == resize_image(calls[i].event.content)
       IN calls' = IF img_cv = NoImage
                   THEN [calls EXCEPT ![i].pc = "Done", ![i].outcome = "decode_error"]
                   ELSE [calls EXCEPT ![i].pc = "CreateMask", ![i].img_cv = img_cv]
    /\ UNCHANGED <<main_vars, obs, mask_file, outputs, mk_vars>>

\* mask_binary = create_mask(MASK_PATH); Image.open raises when the asset
\* has gone since the check
CreateMask(i) ==
    /\ Alive /\ calls[i].pc = "CreateMask"
    /\ IF mask_exists(mask_file)
       THEN /\ calls' = [calls EXCEPT ![i].pc = "Inpaint",
                             ![i].mask_binary = Shape(create_mask(DefaultAsset))]
            /\ obs' = obs
       ELSE Raise(i, "FileNotFoundError")
    /\ UNCHANGED <<main_vars, mask_file, outputs, mk_vars>>

\* result_cv = inpaint_image(img_cv, mask_binary)
Inpaint(i) ==
    /\ Alive /\ calls[i].pc = "Inpaint"
    /\ IF inpaint_accepts(calls[i].img_cv, calls[i].mask_binary)
       THEN /\ calls' = [calls EXCEPT ![i].pc = "Save",
                             ![i].result_cv = inpaint_image(calls[i].img_cv,
                                                            calls[i].mask_binary)]
            /\ obs' = obs
       ELSE Raise(i, "cv2.error")
    /\ UNCHANGED <<main_vars, mask_file, outputs, mk_vars>>

\* Image.fromarray(cv2.cvtColor(result_cv, cv2.COLOR_BGR2RGB))
result_img(result_cv) == [result_cv EXCEPT !.order = "RGB"]

\* result_img.save(output_path, quality=95): the file is written, replacing
\* one of the same path, or the write fails (OSError, or ValueError when
\* PIL knows no format for the path)
Save(i) ==
    /\ Alive /\ calls[i].pc = "Save"
    /\ \/ /\ outputs' = {o \in outputs : o.path # calls[i].output_path}
                 \cup {[path |-> calls[i].output_path,
                        image |-> result_img(calls[i].result_cv), event |-> i]}
          /\ calls' = [calls EXCEPT ![i].pc = "Done", ![i].outcome = "saved"]
          /\ obs' = obs
       \/ /\ \E exc \in {"OSError", "ValueError"} : Raise(i, exc)
          /\ outputs' = outputs
    /\ UNCHANGED <<main_vars, mask_file, mk_vars>>

Next ==
    \/ StartupCheck \/ StartupExit \/ Schedule \/ Start \/ Banner \/ MainSleep \/ Interrupt
    \/ Stop \/ Join
    \/ MaskDeleted \/ MaskRestored \/ FileCreated
    \/ \E i \in 1 .. Len(calls) : Dispatch(i)
    \/ \E i \in 1 .. Len(calls) : Filter(i)
    \/ \E i \in 1 .. Len(calls) : Sleep(i)
    \/ \E i \in 1 .. Len(calls) : Invoke(i)
    \/ \E i \in 1 .. Len(calls) : CheckMask(i)
    \/ \E i \in 1 .. Len(calls) : Resize(i)
    \/ \E i \in 1 .. Len(calls) : CreateMask(i)
    \/ \E i \in 1 .. Len(calls) : Inpaint(i)
    \/ \E i \in 1 .. Len(calls) : Save(i)

Spec == Init /\ [][Next]_vars

\* ------------------------------------------------------------ mask construction
\* create_mask and the dilation of inpaint_image, one statement at a time,
\* over a family of mask assets
GreyLevels == {0, 127, 128, 255}

Blocks ==
    { [bx |-> 0, by |-> 0, bw |-> MASK_SIZE, bh |-> MASK_SIZE],
      [bx |-> 0, by |-> 0, bw |-> 1, bh |-> 1],
      [bx |-> MASK_SIZE - 1, by |-> MASK_SIZE - 1, bw |-> 1, bh |-> 1],
      [bx |-> 5, by |-> 5, bw |-> 35, bh |-> 35],
      [bx |-> 0, by |-> 22, bw |-> MASK_SIZE, bh |-> 1] }

MaskAssets ==
    { [bx |-> b.bx, by |-> b.by, bw |-> b.bw, bh |-> b.bh, fg |-> fg, bg |-> bg] :
        b \in Blocks, fg \in GreyLevels, bg \in GreyLevels }

MainIdle ==
    /\ pc_main = "check_mask"
    /\ exit_code = <<>>
    /\ startup_mask = "unchecked"
    /\ interrupted = FALSE
    /\ scheduled = FALSE
    /\ obs = "new"
    /\ mask_file = "ok"
    /\ calls = <<>>
    /\ outputs = {}

MaskInit ==
    /\ MainIdle
    /\ mk_pc = "open"
    /\ mk_asset \in MaskAssets
    /\ mk_img = new_canvas(0, 0)
    /\ mk_binary = new_canvas(0, 0)
    /\ mk_iter = 0

\* mask_resized = mask_img.resize(...).convert('L')
MkResize ==
    /\ mk_pc = "open"
    /\ mk_img' = mask_resized(mk_asset)
    /\ mk_pc' = "resized"
    /\ UNCHANGED <<main_vars, obs, mask_file, calls, outputs, mk_asset, mk_binary, mk_iter>>

\* mask_canvas = Image.new(...); mask_canvas.paste(mask_resized, (offset_x, offset_y))
MkPaste ==
    /\ mk_pc = "resized"
    /\ mk_img' = paste(new_canvas(TARGET_WIDTH, TARGET_HEIGHT), mk_img,
                       offset_x, offset_y)
    /\ mk_pc' = "pasted"
    /\ UNCHANGED <<main_vars, obs, mask_file, calls, outputs, mk_asset, mk_binary, mk_iter>>

\* _, mask_binary = cv2.threshold(mask_cv, 127, 255, cv2.THRESH_BINARY); return
MkThreshold ==
    /\ mk_pc = "pasted"
    /\ mk_img' = threshold(mk_img, THRESH, MAXVAL)
    /\ mk_binary' = mk_img'
    /\ mk_pc' = "mask"
    /\ UNCHANGED <<main_vars, obs, mask_file, calls, outputs, mk_asset, mk_iter>>

\* cv2.dilate(mask_binary, kernel, iterations=2), one iteration per step
MkDilate ==
    /\ mk_pc \in {"mask", "dilating"}
    /\ mk_iter < DILATE_ITERATIONS
    /\ mk_img' = dilate_once(mk_img, KERNEL_SIZE)
    /\ mk_iter' = mk_iter + 1
    /\ mk_pc' = IF mk_iter' = DILATE_ITERATIONS THEN "dilated" ELSE "dilating"
    /\ UNCHANGED <<main_vars, obs, mask_file, calls, outputs, mk_asset, mk_binary>>

MaskNext == MkResize \/ MkPaste \/ MkThreshold \/ MkDilate

MaskSpec == MaskInit /\ [][MaskNext]_vars

\* ------------------------------------------------------------ properties
CallIds == 1 .. Len(calls)

\* the text after the last "." of a file name (empty when it has no ".")
Extension(name) ==
    LET dots == {k \in 1 .. Len(name) : name[k] = "."}
    IN IF dots = {} THEN <<>> ELSE SubSeq(name, Max(dots) + 1, Len(name))

AllowedExtensions ==
    { <<"p", "n", "g">>, <<"j", "p", "g">>, <<"j", "p", "e", "g">>,
      <<"b", "m", "p">>, <<"t", "i", "f", "f">> }

\* a creation event of a regular file whose extension is allowed in any case
Qualifying(e) ==
    /\ ~e.is_directory
    /\ lower(Extension(basename(e.src_path))) \in AllowedExtensions

FailureOutcomes == {"mask_missing", "decode_error", "failed", "crashed"}

\* call i takes a step of process_file_logic
Steps(i) == calls'[i] # calls[i] /\ calls[i].pc \in ProcessingPcs

\* C1: a failure while processing one file (mask asset missing, input not
\* decodable, output not writable) never stops the watcher: the failing step
\* returns on_created to the dispatcher and leaves the observer thread, the
\* main thread and the exit status as they were; and in every state, after
\* failures or not, a pipeline step that finds the asset present and the
\* input decodable moves on to the next stage, and a save that succeeds puts
\* the output file in place.
C1_FailureContained ==
    [][\A i \in CallIds :
         /\ (Steps(i) /\ calls'[i].outcome \in FailureOutcomes) =>
               /\ calls'[i].pc = "Done"
               /\ calls'[i].outcome # "crashed"
               /\ obs' = obs /\ pc_main' = pc_main /\ exit_code' = exit_code
               /\ outputs' = outputs
         /\ (Steps(i) /\ calls[i].pc = "CheckMask" /\ mask_file = "ok") =>
               calls'[i].pc = "Resize"
         /\ (Steps(i) /\ calls[i].pc = "Resize" /\ calls[i].event.content.ok) =>
               calls'[i].pc = "CreateMask"
         /\ (Steps(i) /\ calls[i].pc = "CreateMask" /\ mask_file = "ok") =>
               calls'[i].pc = "Inpaint"
         /\ (Steps(i) /\ calls[i].pc = "Inpaint") => calls'[i].pc = "Save"
         /\ (Steps(i) /\ calls'[i].outcome = "saved") =>
               \E o \in outputs' : o.path = calls[i].output_path /\ o.event = i
      ]_vars

\* a file is saved by the still running watcher after an earlier file failed
C1_Witness ==
    \E j \in CallIds : \E i \in CallIds :
        /\ j < i
        /\ calls[j].outcome \in {"mask_missing", "decode_error", "failed"}
        /\ calls[i].outcome = "saved"
        /\ obs = "running"
        /\ \E o \in outputs : o.event = i

\* C2: a directory creation, or a file whose extension (case-insensitively)
\* is not png, jpg, jpeg, bmp or tiff, never reaches process_file_logic and
\* writes no output; a regular file with an allowed extension in any letter
\* case is never dropped by the filter.
C2_Filter ==
    \A i \in CallIds :
        /\ ~Qualifying(calls[i].event) =>
              /\ calls[i].pc \in {"Queued", "EventReceived", "Filtered"}
              /\ calls[i].invocations = 0
              /\ \A o \in outputs : o.event # i
        /\ Qualifying(calls[i].event) => calls[i].pc # "Filtered"

\* a .txt file has been dropped and a file with an upper-case extension saved
C2_Witness ==
    \E i \in CallIds : \E j \in CallIds :
        /\ calls[i].pc = "Filtered"
        /\ ~calls[i].event.is_directory
        /\ Extension(basename(calls[i].event.src_path)) = <<"t", "x", "t">>
        /\ calls[j].outcome = "saved"
        /\ Extension(basename(calls[j].event.src_path)) = <<"J", "p", "E", "g">>

\* C3 (as claimed): every qualifying event handed to on_created gets exactly
\* one process_file_logic invocation, whatever else happens meanwhile, an
\* interrupt included: never more than one, and one once on_created has
\* returned or the process has ended.
C3_ExactlyOnce ==
    \A i \in CallIds :
        /\ calls[i].invocations <= 1
        /\ ( /\ Qualifying(calls[i].event)
             /\ calls[i].pc # "Queued"
             /\ (on_created_returned(calls[i]) \/ ~Alive) )
              => calls[i].invocations = 1

\* the step of the watcher's state machine a call is in
Phase(pcv) ==
    CASE pcv \in {"Queued", "Done"} -> "Idle"
      [] pcv \in ProcessingPcs -> "Processing"
      [] OTHER -> pcv

PhaseTransitions ==
    { <<"Idle", "EventReceived">>, <<"EventReceived", "Filtered">>,
      <<"EventReceived", "Debouncing">>, <<"Debouncing", "Processing">>,
      <<"Processing", "Idle">> }

\* C4: each call follows Idle -> EventReceived -> (Filtered | Debouncing ->
\* Processing) -> Idle; Processing is entered only from Debouncing after the
\* full 1-second delay, and a filtered event never debounces nor processes.
C4_Debounce ==
    [][\A i \in CallIds :
         LET a == calls[i].pc
             b == calls'[i].pc
         IN /\ Phase(a) # Phase(b) => <<Phase(a), Phase(b)>> \in PhaseTransitions
            /\ a = "Done" => b = "Done"
            /\ a = "Filtered" => b = "Filtered" /\ calls'[i].elapsed = 0
            /\ (Phase(b) = "Processing" /\ Phase(a) # "Processing") =>
                  a = "Debouncing" /\ calls[i].elapsed = 1
      ]_vars

\* one call is processing after its full delay, another has been filtered
C4_Witness ==
    \E i \in CallIds : \E j \in CallIds :
        /\ calls[i].pc \in ProcessingPcs /\ calls[i].elapsed = 1
        /\ calls[j].pc = "Filtered" /\ calls[j].elapsed = 0

\* C5: with the mask asset missing when the startup check runs, the process
\* exits, with code 1 (unless a KeyboardInterrupt ends it first), before the
\* watcher is scheduled or started, so no event is handled and nothing is
\* written; with the asset present the process does not take the exit of
\* the check (only an interrupt ends it) and goes on to schedule and start
\* the observer.
C5_StartupCheck ==
    /\ startup_mask = "missing" =>
          /\ pc_main \in {"startup_exit", "exited"}
          /\ (pc_main = "exited" /\ ~interrupted) => exit_code = <<1>>
          /\ ~scheduled /\ obs = "new"
          /\ calls = <<>> /\ outputs = {}
    /\ startup_mask = "present" =>
          /\ pc_main \notin {"check_mask", "startup_exit"}
          /\ (pc_main = "exited" => interrupted)
          /\ (pc_main \in {"start", "banner", "loop", "stop", "join"} => scheduled)
          /\ (pc_main \in {"banner", "loop", "stop", "join"} => obs # "new")
    /\ startup_mask = "unchecked" => ~scheduled /\ obs = "new"

\* the asset was missing at startup and the process has exited with code 1
C5_Witness ==
    /\ startup_mask = "missing" /\ pc_main = "exited" /\ exit_code = <<1>>
    /\ ~interrupted /\ obs = "new"

\* C6: the output path of every invocation is the output directory joined
\* with exactly the basename of the event's source path, and every file
\* written lies in the output directory under the name of its input.
C6_OutputName ==
    /\ \A i \in CallIds :
          calls[i].invocations > 0 =>
             calls[i].output_path =
                 OUTPUT_DIR \o <<"/">> \o basename(calls[i].event.src_path)
    /\ \A o \in outputs :
          /\ o.event \in CallIds
          /\ dirname(o.path) = OUTPUT_DIR
          /\ basename(o.path) = basename(calls[o.event].event.src_path)
          /\ dirname(calls[o.event].event.src_path) = INPUT_DIR

\* the file with capitals in its name has been written under that very name
C6_Witness ==
    \E o \in outputs :
        o.path = OUTPUT_DIR \o <<"/", "B", ".", "J", "p", "E", "g">>

\* C7: whatever the size of the input, after the resize the working image is
\* 1280 x 720 at every step, the mask handed to the inpainter has the size
\* of the working image, and the image saved is 1280 x 720.
C7_CanonicalSize ==
    /\ \A i \in CallIds :
          /\ calls[i].pc \in {"CreateMask", "Inpaint", "Save"} =>
                calls[i].img_cv.width = 1280 /\ calls[i].img_cv.height = 720
          /\ calls[i].pc \in {"Inpaint", "Save"} =>
                /\ calls[i].mask_binary.width = calls[i].img_cv.width
                /\ calls[i].mask_binary.height = calls[i].img_cv.height
          /\ calls[i].pc = "Save" =>
                calls[i].result_cv.width = 1280 /\ calls[i].result_cv.height = 720
          /\ (calls[i].pc = "Done" /\ calls[i].outcome # "decode_error"
                /\ calls[i].img_cv # NoImage) =>
                calls[i].img_cv.width = 1280 /\ calls[i].img_cv.height = 720
    /\ \A o \in outputs :
          o.image.width = 1280 /\ o.image.height = 720 /\ o.image.channels = 3

\* inputs of another size and aspect ratio have been saved
C7_Witness ==
    \E o \in outputs :
        /\ calls[o.event].event.content.width # 1280
        /\ calls[o.event].event.content.width * 720
              # calls[o.event].event.content.height * 1280
        /\ o.image.width = 1280 /\ o.image.height = 720

MaskReturned == mk_pc \in {"mask", "dilating", "dilated"}

\* binary, and nonzero only inside x in [1205,1250), y in [645,690)
MaskBinaryInRectangle ==
    MaskReturned =>
        /\ mk_binary = create_mask(mk_asset)
        /\ mk_binary.width = 1280 /\ mk_binary.height = 720
        /\ PixelValues(mk_binary) \subseteq {0, 255}
        /\ \A p \in NonZero(mk_binary) :
              p[1] >= 1205 /\ p[1] < 1250 /\ p[2] >= 645 /\ p[2] < 690

C9_GracefulExit ==
    (obs # "new" /\ pc_main = "exited") =>
        /\ interrupted
        /\ obs = "stopped"
        /\ exit_code = <<0>>

\* C10: at most one on_created call is debouncing or processing at a time:
\* a call is begun only when every earlier one has returned; and no step of
\* the main thread touches a call or an output file.
C10_Sequential ==
    /\ [](/\ Cardinality({i \in CallIds :
                   calls[i].pc \in {"Debouncing"} \cup ProcessingPcs}) <= 1
          /\ \A i \in CallIds : \A j \in CallIds :
                (i < j /\ calls[j].pc # "Queued") =>
                    calls[i].pc \in {"Filtered", "Done"})
    /\ [][pc_main' # pc_main => calls' = calls /\ outputs' = outputs]_vars

\* a burst: one call is in its pipeline while the next event waits
C10_Witness ==
    \E i \in CallIds : \E j \in CallIds :
        /\ i < j
        /\ calls[i].pc \in ProcessingPcs
        /\ calls[j].pc = "Queued"
        /\ pc_main = "loop"

====
